---- MODULE Spec2Model ----
(***************************************************************************)
(* Node bootstrap of hyperpod_k8s: lcc/lifecycle_script.py (main, the      *)
(* topology lookup, the two readiness waiters) and lcc/configure_k8s.py    *)
(* (the install steps, the join-credential rendezvous with Secrets         *)
(* Manager, kubeadm join, node labels).                                    *)
(*                                                                         *)
(* Strings the code takes apart or concatenates (ARN, cluster name,        *)
(* secret name, addresses, file content) are sequences of one-character    *)
(* strings; strings it only passes around are TLA+ strings.  Wall-clock    *)
(* time is counted in whole seconds.                                       *)
(***************************************************************************)
EXTENDS Integers, Sequences, FiniteSets, TLC

\* ------------------------------------------------------------------ bounds
\* longest duration, in seconds, of one Secrets Manager read
MaxReadTime == 2
\* latest second, after the worker starts, at which the control node publishes
MaxPubTime == 303
\* topology documents: number of instance groups, instances per group
MaxGroups == 2
MaxInstances == 2
\* longest duration, in seconds, of one attempt of a readiness waiter
MaxAttemptTime == 2
\* wait_for_slurm_conf: length of the list of controller addresses
MaxControllers == 2

\* --------------------------------------------------- configure_k8s.py data
\* secret_name = "hyperpod-k8s-"
secret_name == <<"h","y","p","e","r","p","o","d","-","k","8","s","-">>
\* join_info_timeout = 5 * 60
join_info_timeout == 5 * 60
\* time.sleep(10) of the rendezvous loop
join_info_sleep == 10
\* sudo_command when the script does not run as root (main starts it as ubuntu)
sudo_command == <<"sudo", "-E">>

\* Optional values: None is the empty sequence, a value x is <<x>>
None == <<>>
Some(x) == <<x>>
Never == 0 - 1

Range(s) == {s[i] : i \in 1..Len(s)}

\* ------------------------------------------------------ cluster identity
Lower == {"a","b","c","d","e","f","g","h","i","j","k","l","m",
          "n","o","p","q","r","s","t","u","v","w","x","y","z"}
Digit == {"0","1","2","3","4","5","6","7","8","9"}

ArnLit1 == <<"a","r","n",":","a","w","s",":","s","a","g","e","m","a","k","e","r",":">>
ArnLit2 == <<":">>
ArnLit3 == <<":","c","l","u","s","t","e","r","/">>

\* s has the literal lit at position i
HasLit(s, i, lit) ==
    /\ i + Len(lit) - 1 <= Len(s)
    /\ \A k \in 1..Len(lit) : s[i + k - 1] = lit[k]

\* the position after the longest run of characters of cls that starts at i
RunEnd(s, i, cls) ==
    CHOOSE j \in i..(Len(s) + 1) :
        /\ \A k \in i..(j - 1) : s[k] \in cls
        /\ j = Len(s) + 1 \/ s[j] \notin cls

\* re.match("arn:aws:sagemaker:([a-z0-9-]+):([0-9]+):cluster/([a-z0-9]+)", arn):
\* anchored at the start only; the groups are greedy and the literals that
\* follow them are outside their classes, so the match is unique.
re_match(arn) ==
    LET p1 == Len(ArnLit1) + 1
        e1 == RunEnd(arn, p1, Lower \cup Digit \cup {"-"})
        p2 == e1 + Len(ArnLit2)
        e2 == RunEnd(arn, p2, Digit)
        p3 == e2 + Len(ArnLit3)
        e3 == RunEnd(arn, p3, Lower \cup Digit)
    IN  IF /\ HasLit(arn, 1, ArnLit1)
           /\ e1 > p1
           /\ HasLit(arn, e1, ArnLit2)
           /\ e2 > p2
           /\ HasLit(arn, e2, ArnLit3)
           /\ e3 > p3
        THEN [ok |-> TRUE,
              g1 |-> SubSeq(arn, p1, e1 - 1),
              g2 |-> SubSeq(arn, p2, e2 - 1),
              g3 |-> SubSeq(arn, p3, e3 - 1)]
        ELSE [ok |-> FALSE, g1 |-> <<>>, g2 |-> <<>>, g3 |-> <<>>]

get_cluster_name(d) == d.ClusterConfig.ClusterName
get_cluster_arn(d) == d.ClusterConfig.ClusterArn
\* an assert that every ARN passes
arn_ok_unchecked(d) == TRUE
\* the assert of get_region / get_cluster_id holds
arn_ok(d) == re_match(get_cluster_arn(d)).ok
get_region(d) == re_match(get_cluster_arn(d)).g1
get_cluster_id(d) == re_match(get_cluster_arn(d)).g3

\* f"{secret_name}-{cluster_name}"
get_secret_name(d) == secret_name \o <<"-">> \o get_cluster_name(d)

\* ------------------------------------------------------ topology documents
MkArn(region, account, id) == ArnLit1 \o region \o ArnLit2 \o account \o ArnLit3 \o id

Regions == {<<"u","s","-","1">>}
Accounts == {<<"8","4">>}
ClusterIds == {<<"k","b","8">>, <<"z","9">>}
WellFormedArns == {MkArn(r, a, i) : r \in Regions, a \in Accounts, i \in ClusterIds}
\* an empty account number, and a cluster id that starts with a capital letter
MalformedArns == {ArnLit1 \o <<"u","s","-","1">> \o ArnLit2 \o ArnLit3 \o <<"k","b","8">>,
                  MkArn(<<"u","s","-","1">>, <<"8","4">>, <<"K","b">>)}
ClusterNames == {<<"K","8">>, <<"K","9">>}
ClusterConfigs ==
    [ClusterArn : WellFormedArns \cup MalformedArns, ClusterName : ClusterNames]

Addresses == {<<"1",".","1">>, <<"1",".","2">>}
\* an address of no document of this model
StrangerAddress == <<"1",".","1","2">>
GroupNames == {"ControllerGroup", "WorkerGroup"}
InstanceTypes == {"ml.t3.xlarge"}

SeqsUpTo(S, n) == UNION {[1..k -> S] : k \in 0..n}
SeqsFrom1(S, n) == UNION {[1..k -> S] : k \in 1..n}

Instances == [CustomerIpAddress : Addresses]
InstanceGroupDocs ==
    [Name : GroupNames, InstanceType : InstanceTypes,
     Instances : SeqsUpTo(Instances, MaxInstances)]
InstanceGroupLists == SeqsFrom1(InstanceGroupDocs, MaxGroups)

\* the sample document of configure_k8s.py, with the addresses of this model
SampleGroups ==
    << [Name |-> "ControllerGroup", InstanceType |-> "ml.t3.xlarge",
        Instances |-> << [CustomerIpAddress |-> <<"1",".","1">>] >>],
       [Name |-> "WorkerGroup", InstanceType |-> "ml.t3.xlarge",
        Instances |-> << [CustomerIpAddress |-> <<"1",".","2">>] >>] >>

\* documents whose addresses differ in where the separator stands, and a
\* document of two groups of different instance types
WideAddresses == Addresses \cup {<<"2",".","1","1">>, <<"2","1",".","1">>}
MixedGroups ==
    << [Name |-> "WorkerGroup", InstanceType |-> "ml.t3.xlarge",
        Instances |-> << [CustomerIpAddress |-> <<"2",".","1","1">>] >>],
       [Name |-> "WorkerGroup", InstanceType |-> "ml.g5.xlarge",
        Instances |-> << [CustomerIpAddress |-> <<"2","1",".","1">>] >>] >>
WideGroupLists ==
    {<<grp>> : grp \in [Name : {"WorkerGroup"}, InstanceType : {"ml.t3.xlarge"},
                        Instances : SeqsUpTo([CustomerIpAddress : WideAddresses],
                                             MaxInstances)]}
        \cup {MixedGroups}

\* the labels a node may carry before add_labels_to_nodes runs: none of the
\* three, an instance type set by another party, the name of another cluster
Unlabelled ==
    [key \in {"node.kubernetes.io/instance-type", "sagemaker.aws.dev/cluster",
              "sagemaker.aws.dev/launch-type"} |-> None]
NodeLabels ==
    {Unlabelled,
     [Unlabelled EXCEPT !["node.kubernetes.io/instance-type"] = Some(<<"ml.m5.large">>)],
     [Unlabelled EXCEPT !["sagemaker.aws.dev/cluster"] = Some(<<"K","9">>)]}

\* -------------------------------------------------- lifecycle_script.py
\* the lookup that answers with the first group of the document
find_instance_by_address_first_group(d, address) ==
    LET groups == d.InstanceGroups
        hits == {p \in UNION {{<<g, i>> : i \in 1..Len(groups[g].Instances)} :
                              g \in 1..Len(groups)} :
                    groups[p[1]].Instances[p[2]].CustomerIpAddress = address}
    IN  IF hits = {}
        THEN [group |-> None, instance |-> None]
        ELSE LET first == CHOOSE p \in hits :
                     \A q \in hits : p[1] < q[1] \/ (p[1] = q[1] /\ p[2] <= q[2])
             IN  [group |-> Some(groups[1]),
                  instance |-> Some(groups[first[1]].Instances[first[2]])]

\* ResourceConfig.find_instance_by_address: the first instance, in document
\* order, whose CustomerIpAddress equals address, with its group
find_instance_by_address(d, address) ==
    LET groups == d.InstanceGroups
        hits == {p \in UNION {{<<g, i>> : i \in 1..Len(groups[g].Instances)} :
                              g \in 1..Len(groups)} :
                    groups[p[1]].Instances[p[2]].CustomerIpAddress = address}
    IN  IF hits = {}
        THEN [group |-> None, instance |-> None]
        ELSE LET first == CHOOSE p \in hits :
                     \A q \in hits : p[1] < q[1] \/ (p[1] = q[1] /\ p[2] <= q[2])
             IN  [group |-> Some(groups[first[1]]),
                  instance |-> Some(groups[first[1]].Instances[first[2]])]

\* ------------------------------------------------------------- the state
VARIABLES
    config,      \* resource_config.json, as lifecycle_script.py loaded it
    rc_instance, \* configure_k8s.py: ResourceConfig._instance (None, or the document)
    self_ip,     \* get_ip_address()
    pc,          \* position of the bootstrap
    err,         \* the exception that ended it, or "none"
    errmsg,      \* the message of that exception (tokens)
    printed,     \* the lines printed so far (each a sequence of tokens)
    steps,       \* the steps started so far, in order
    group,       \* main: group, instance = find_instance_by_address(self_ip)
    instance,
    now,         \* wall clock, seconds since the bootstrap started
    t0,          \* init_worker_node: t0 = time.time()
    pubTime,     \* second at which the control node publishes the secret, or Never
    secret,      \* the credential the control node publishes
    join_info,   \* init_worker_node: the credential read, or None
    notFound,    \* reads that ended with ResourceNotFoundException
    sleeps,      \* time.sleep(10) calls made
    storeErrors, \* reads that ended with another error of the store
    joins,       \* kubeadm join invocations
    joinCmd,     \* the command line of the latest one
    joinRc,      \* its exit code, or None
    \* two clusters and one secret store
    other,       \* the resource_config.json of a node of another cluster
    secretName,  \* get_secret_name() on this node, once called
    otherName,   \* get_secret_name() on the other cluster's node
    \* the readiness waiters of lifecycle_script.py
    waiter,      \* the waiter called
    controllers, \* wait_for_slurm_conf: its argument
    slurm_conf,  \* the file SLURM_CONF: Absent, or its content
    wpc,         \* position of the waiter
    wi,          \* the loop variable i
    wnow,        \* wall clock, seconds since the waiter was called
    wresult,     \* the value returned, or None
    werr,        \* the exception that left the waiter, or "none"
    \* the functions of configure_k8s.py over the document, called on their own
    call,        \* the function called: "iter_instances", "get_list_of_addresses", ...
    calls,       \* calls of it that have returned
    listed,      \* what the first call returned
    listedAgain, \* what the latest call returned
    labels,      \* the labels of the cluster's nodes: node name -> key -> value
    labeled,     \* the labels when the first call of add_labels_to_nodes returned
    lpos,        \* add_labels_to_nodes: kubectl commands issued in this call
    lfail        \* why a kubectl label command exited non-zero, or "none"

bootVars == <<config, rc_instance, self_ip, pc, err, errmsg, printed, steps, group, instance,
              now, t0, pubTime, secret, join_info, notFound, sleeps,
              storeErrors, joins, joinCmd, joinRc>>
topoVars == <<other, secretName, otherName>>
waitVars == <<waiter, controllers, slurm_conf, wpc, wi, wnow, wresult, werr>>
callVars == <<call, calls, listed, listedAgain, labels, labeled, lpos, lfail>>
sideVars == <<topoVars, waitVars, callVars>>
bootRest == <<rc_instance, self_ip, pc, err, errmsg, printed, steps, group, instance,
              now, t0, pubTime, secret, join_info, notFound, sleeps,
              storeErrors, joins, joinCmd, joinRc>>

Credentials ==
    { [master_addr_port |-> "10.1.113.28:6443", token |-> "tokenA",
       discovery_token_ca_cert_hash |-> "hashA"],
      [master_addr_port |-> "10.1.113.28:6443", token |-> "tokenB",
       discovery_token_ca_cert_hash |-> "hashB"] }

BootConfigs ==
    { [ClusterConfig |-> [ClusterArn |-> arn, ClusterName |-> <<"K","8">>],
       InstanceGroups |-> SampleGroups] :
      arn \in {MkArn(<<"u","s","-","1">>, <<"8","4">>, <<"k","b","8">>),
               MkArn(<<"u","s","-","1">>, <<"8","4">>, <<"K","b">>)} }

InitBoot ==
    /\ config \in BootConfigs
    /\ rc_instance = None
    /\ self_ip \in {<<"1",".","2">>, StrangerAddress}
    /\ pc = "main"
    /\ err = "none"
    /\ errmsg = <<>>
    /\ printed = {}
    /\ steps = <<>>
    /\ group = None
    /\ instance = None
    /\ now = 0
    /\ t0 = 0
    /\ pubTime \in {Never} \cup 0..MaxPubTime
    /\ secret \in Credentials
    /\ join_info = None
    /\ notFound = 0
    /\ sleeps = 0
    /\ storeErrors = 0
    /\ joins = 0
    /\ joinCmd = <<>>
    /\ joinRc = None

\* ------------------------------------------------- lifecycle_script.main
Raise(e, msg) ==
    /\ pc' = "failed"
    /\ err' = e
    /\ errmsg' = msg

timeVars == <<rc_instance, now, t0, pubTime, secret, join_info, notFound, sleeps, storeErrors>>
joinVars == <<joins, joinCmd, joinRc>>

\* a main that goes on to the scripts whatever the lookup answered
main_without_check ==
    /\ pc = "main"
    /\ LET r == find_instance_by_address(config, self_ip)
       IN  /\ group' = r.group
           /\ instance' = r.instance
           /\ steps' = Append(steps, "find_instance_by_address")
           /\ pc' = "apply_hotfix"
           /\ printed' = printed \cup {<<"This node ip address is">>, <<"group">>}
           /\ UNCHANGED <<err, errmsg>>
    /\ UNCHANGED <<config, self_ip, timeVars, joinVars, sideVars>>

\* main, lines 128-136: locate this node in the document or raise ValueError
main ==
    /\ pc = "main"
    /\ LET r == find_instance_by_address(config, self_ip)
       IN  /\ group' = r.group
           /\ instance' = r.instance
           /\ steps' = Append(steps, "find_instance_by_address")
           /\ IF r.instance = None
              THEN /\ Raise("ValueError", <<"This instance not found in resource config. Can't process">>)
                   /\ printed' = printed \cup {<<"This node ip address is">>}
              ELSE /\ pc' = "apply_hotfix"
                   /\ printed' = printed \cup {<<"This node ip address is">>, <<"group">>}
                   /\ UNCHANGED <<err, errmsg>>
    /\ UNCHANGED <<config, self_ip, timeVars, joinVars, sideVars>>

\* ExecuteBashScript(script).run(): subprocess.run, then check_returncode()
ExecuteBashScript(at, script, next) ==
    /\ pc = at
    /\ steps' = Append(steps, script)
    /\ printed' = printed \cup {<<"Execute script:", script>>}
    /\ \E rc \in {0, 1} :
          IF rc = 0
          THEN pc' = next /\ UNCHANGED <<err, errmsg>>
          ELSE Raise("CalledProcessError", <<"Command", script, "returned non-zero exit status">>)
    /\ UNCHANGED <<config, self_ip, group, instance, timeVars, joinVars, sideVars>>

apply_hotfix == ExecuteBashScript("apply_hotfix", "./apply_hotfix.sh", "install_docker")
install_docker == ExecuteBashScript("install_docker", "./utils/install_docker.sh", "configure_k8s")

\* ----------------------------------------------------- configure_k8s.py
\* the exit code of the child never looked at
run_subprocess_wrap_unchecked(cmd, returncode, next) ==
    pc' = next /\ UNCHANGED <<err, errmsg>>

\* run_subprocess_wrap(cmd), the child exiting with returncode: a non-zero
\* exit code raises ChildProcessError, whose message holds the command line
run_subprocess_wrap(cmd, returncode, next) ==
    IF returncode # 0
    THEN Raise("ChildProcessError",
               <<"Subprocess">> \o cmd \o <<"returned non-zero exit code">>)
    ELSE pc' = next /\ UNCHANGED <<err, errmsg>>

\* an install step: its progress lines, then its commands
InstallStep(at, name, line, cmd, next) ==
    /\ pc = at
    /\ steps' = Append(steps, name)
    /\ printed' = printed \cup {<<"---">>, <<line>>}
    /\ \E rc \in {0, 1} : run_subprocess_wrap(cmd, rc, next)
    /\ UNCHANGED <<config, self_ip, group, instance, timeVars, joinVars, sideVars>>

install_python_packages ==
    InstallStep("configure_k8s", "install_python_packages",
                "Installing Python packages", <<"pip3", "install", "boto3">>,
                "configure_bridged_traffic")
configure_bridged_traffic ==
    InstallStep("configure_bridged_traffic", "configure_bridged_traffic",
                "Configuring bridged traffic",
                <<"bash", "./utils/configure_bridged_traffic.sh">>,
                "configure_cri_containerd")
configure_cri_containerd ==
    InstallStep("configure_cri_containerd", "configure_cri_containerd",
                "Configuring containerd config file",
                sudo_command \o <<"systemctl", "restart", "containerd">>,
                "install_kubernetes")
install_kubernetes ==
    InstallStep("install_kubernetes", "install_kubernetes",
                "Installing Kubernetes", <<"bash", "./utils/install_kubernetes.sh">>,
                "init_worker_node")

\* a read that answers with the credential of some other secret
get_secret_value_other(t) ==
    IF pubTime # Never /\ pubTime <= t - t0
    THEN Some(CHOOSE c \in Credentials : c # secret)
    ELSE None

\* the secret as Secrets Manager holds it at wall-clock time t
\* (get_secret_value answers ResourceNotFoundException while it is unpublished)
get_secret_value(t) ==
    IF pubTime # Never /\ pubTime <= t - t0 THEN Some(secret) ELSE None

\* a loop that takes what a read returned only while the timeout has not
\* passed when the read began
Found_in_time(value) == value # None /\ now - t0 < join_info_timeout

\* init_worker_node, lines 294-295: if join_info is not None: break
Found(value) == value # None

\* the timeout test with > for >=
TimedOut_strict(elapsed) == elapsed > join_info_timeout

\* time.time() - t0 >= join_info_timeout
TimedOut(elapsed) == elapsed >= join_info_timeout

\* init_worker_node, lines 288-291
init_worker_node ==
    /\ pc = "init_worker_node"
    /\ steps' = Append(steps, "init_worker_node")
    /\ printed' = printed \cup {<<"---">>, <<"Getting join token from master node.">>}
    /\ t0' = now
    /\ pc' = "poll"
    /\ UNCHANGED <<config, rc_instance, self_ip, err, errmsg, group, instance, now, pubTime,
                   secret, join_info, notFound, sleeps, storeErrors, joinVars, sideVars>>

\* every error of the client caught and answered with None
get_join_info_from_secret_except_all(fails, value) ==
    IF fails THEN [raised |-> FALSE, value |-> None]
    ELSE [raised |-> FALSE, value |-> value]

\* get_join_info_from_secret, lines 274-281: only ResourceNotFoundException
\* is caught (and answered with None); any other error of the client leaves
\* the function; otherwise the SecretString is returned
get_join_info_from_secret(fails, value) ==
    IF fails THEN [raised |-> TRUE, value |-> None]
    ELSE [raised |-> FALSE, value |-> value]

\* one turn of the loop, lines 293-298 with get_join_info_from_secret:
\* ResourceConfig.instance() (the first call copies and loads the document,
\* and the copy may fail), get_region's assert, the read (it takes d seconds and
\* sees the store as it is o seconds after its start), then the timeout test
\* on a missing key
Poll ==
    /\ pc = "poll"
    /\ \E cp \in IF rc_instance = None THEN {0, 1} ELSE {0} :
       IF cp # 0
       THEN /\ Raise("ChildProcessError",
                     <<"Subprocess">> \o sudo_command \o <<"cp", "resource_config.json">>
                         \o <<"returned non-zero exit code">>)
            /\ UNCHANGED <<rc_instance, printed, now, join_info, notFound, storeErrors>>
       ELSE
       /\ rc_instance' = Some(config)
       /\ IF ~arn_ok(rc_instance'[1])
          THEN /\ Raise("AssertionError", <<"Region name not found in cluster ARN">>)
               /\ UNCHANGED <<printed, now, join_info, notFound, storeErrors>>
          ELSE \E d \in 0..MaxReadTime, o \in 0..MaxReadTime, fails \in BOOLEAN :
               /\ o <= d
               /\ now' = now + d
               /\ storeErrors' = IF fails THEN storeErrors + 1 ELSE storeErrors
               /\ LET r == get_join_info_from_secret(fails, get_secret_value(now + o))
                      fetching == <<"Fetching joining token from">>
                                      \o get_secret_name(rc_instance'[1])
                  IN  IF r.raised
                      THEN /\ Raise("ClientError", <<"An error occurred when calling GetSecretValue">>)
                           /\ printed' = printed \cup {fetching}
                           /\ UNCHANGED <<join_info, notFound>>
                      ELSE IF Found(r.value)
                      THEN /\ join_info' = r.value
                           /\ pc' = "join"
                           /\ printed' = printed \cup {fetching, <<"---">>, <<"Joining to the cluster">>}
                           /\ UNCHANGED <<err, errmsg, notFound>>
                      ELSE /\ notFound' = notFound + 1
                           /\ IF TimedOut(now' - t0)
                              THEN /\ Raise("TimeoutError", <<"Getting join token timed out.">>)
                                   /\ printed' = printed \cup {fetching}
                              ELSE /\ pc' = "sleep"
                                   /\ printed' = printed \cup
                                        {fetching, <<"Join information is not ready in SecretsManager. Retrying...">>}
                                   /\ UNCHANGED <<err, errmsg>>
                           /\ UNCHANGED join_info
    /\ UNCHANGED <<config, self_ip, steps, group, instance, t0, pubTime, secret, sleeps, joinVars, sideVars>>

\* time.sleep(10), line 299
Sleep ==
    /\ pc = "sleep"
    /\ now' = now + join_info_sleep
    /\ sleeps' = sleeps + 1
    /\ pc' = "poll"
    /\ UNCHANGED <<config, rc_instance, self_ip, err, errmsg, printed, steps, group, instance,
                   t0, pubTime, secret, join_info, notFound, storeErrors, joinVars, sideVars>>

\* the command line of line 303; "sha256:" + hash is two tokens here
kubeadm_join_cmd(info) ==
    sudo_command \o <<"kubeadm", "join", info.master_addr_port, "--token", info.token,
                      "--discovery-token-ca-cert-hash", "sha256:",
                      info.discovery_token_ca_cert_hash>>

\* line 303: run_subprocess_wrap of kubeadm join
kubeadm_join ==
    /\ pc = "join"
    /\ steps' = Append(steps, "kubeadm join")
    /\ joins' = joins + 1
    /\ joinCmd' = kubeadm_join_cmd(join_info[1])
    /\ \E rc \in {0, 1} :
          /\ joinRc' = Some(rc)
          /\ run_subprocess_wrap(kubeadm_join_cmd(join_info[1]), rc, "configure_k8s_end")
    /\ UNCHANGED <<config, self_ip, printed, group, instance, timeVars, sideVars>>

\* configure_k8s, lines 330-331
configure_k8s_end ==
    /\ pc = "configure_k8s_end"
    /\ printed' = printed \cup {<<"---">>, <<"Finished Kubernetes configuration steps">>}
    /\ pc' = "main_end"
    /\ UNCHANGED <<config, self_ip, err, errmsg, steps, group, instance, timeVars, joinVars, sideVars>>

\* main, line 146
main_end ==
    /\ pc = "main_end"
    /\ printed' = printed \cup {<<"[INFO]: Success: All provisioning scripts completed">>}
    /\ pc' = "done"
    /\ UNCHANGED <<config, self_ip, err, errmsg, steps, group, instance, timeVars, joinVars, sideVars>>

\* ------------------------------------------- two clusters, one store
\* get_secret_name() called on a node of each cluster
get_secret_names ==
    /\ secretName = None
    /\ secretName' = Some(get_secret_name(config))
    /\ otherName' = Some(get_secret_name(other))
    /\ UNCHANGED <<bootVars, other, waitVars, callVars>>

\* ------------------------------- configure_k8s.py over the document
MaxCalls == 2

\* the name without the separators of the address
Name_undotted(address) ==
    <<"i", "p", "-">> \o SelectSeq(address, LAMBDA c : c # ".")

\* iter_instances, line 130: "ip-" + instance["CustomerIpAddress"].replace(".", "-")
Name(address) ==
    <<"i", "p", "-">> \o [k \in 1..Len(address) |->
                             IF address[k] = "." THEN "-" ELSE address[k]]

\* iter_instances, lines 127-130: instance2, the copy with its three new fields
instance2(inst, grp) ==
    [CustomerIpAddress |-> inst.CustomerIpAddress,
     InstanceType |-> grp.InstanceType,
     InstanceGroupName |-> grp.Name,
     Name |-> Name(inst.CustomerIpAddress)]

\* iter_instances, lines 125-131: what the generator yields, in document order
RECURSIVE iter_groups(_)
iter_groups(groups) ==
    IF groups = <<>>
    THEN <<>>
    ELSE LET grp == Head(groups)
         IN  [i \in 1..Len(grp.Instances) |-> instance2(grp.Instances[i], grp)]
                 \o iter_groups(Tail(groups))
iter_instances(d) == iter_groups(d.InstanceGroups)

\* the document after an iteration that writes the new fields into the
\* instance itself (instance2 = instance)
iter_instances_stored_aliased(d) ==
    [d EXCEPT !.InstanceGroups =
        [g \in 1..Len(d.InstanceGroups) |->
            [Name |-> d.InstanceGroups[g].Name,
             InstanceType |-> d.InstanceGroups[g].InstanceType,
             Instances |-> [i \in 1..Len(d.InstanceGroups[g].Instances) |->
                 instance2(d.InstanceGroups[g].Instances[i], d.InstanceGroups[g])]]]]

\* iter_instances, line 127: instance2 = instance.copy(); the assignments of
\* lines 128-130 go to the copy, the stored document keeps what it had
iter_instances_stored(d) == d

\* lifecycle_script.py, get_list_of_addresses: the addresses of the first
\* group of that name, [] when there is none
get_list_of_addresses(d, group_name) ==
    LET groups == d.InstanceGroups
        named == {g \in 1..Len(groups) : groups[g].Name = group_name}
    IN  IF named = {}
        THEN <<>>
        ELSE LET g == CHOOSE x \in named : \A y \in named : x <= y
             IN  [i \in 1..Len(groups[g].Instances) |->
                     groups[g].Instances[i].CustomerIpAddress]

\* a call of iter_instances run to its end
call_iter_instances ==
    /\ call = "iter_instances"
    /\ calls < MaxCalls
    /\ listed' = IF calls = 0 THEN iter_instances(config) ELSE listed
    /\ listedAgain' = iter_instances(config)
    /\ config' = iter_instances_stored(config)
    /\ calls' = calls + 1
    /\ UNCHANGED <<bootRest, topoVars, waitVars, call, labels, labeled, lpos, lfail>>

\* a call of get_list_of_addresses
call_get_list_of_addresses ==
    /\ call = "get_list_of_addresses"
    /\ calls < MaxCalls
    /\ \E group_name \in GroupNames :
          listedAgain' = get_list_of_addresses(config, group_name)
    /\ calls' = calls + 1
    /\ UNCHANGED <<bootVars, topoVars, waitVars, call, listed, labels, labeled, lpos, lfail>>

\* a call of get_region and of get_cluster_id; both assert that the ARN matches
call_get_region ==
    /\ call = "get_region"
    /\ calls < MaxCalls
    /\ listedAgain' = IF arn_ok(config)
                      THEN <<get_region(config), get_cluster_id(config)>>
                      ELSE <<>>
    /\ calls' = calls + 1
    /\ UNCHANGED <<bootVars, topoVars, waitVars, call, listed, labels, labeled, lpos, lfail>>

\* add_labels_to_nodes, lines 308-317: the kubectl label commands of one
\* call, three for each instance that iter_instances yields
label_commands(d) ==
    LET cluster_name == get_cluster_name(d)
        yielded == iter_instances(d)
        three(inst) ==
            << [node |-> inst.Name, key |-> "node.kubernetes.io/instance-type",
                value |-> <<inst.InstanceType>>],
               [node |-> inst.Name, key |-> "sagemaker.aws.dev/cluster",
                value |-> cluster_name],
               [node |-> inst.Name, key |-> "sagemaker.aws.dev/launch-type",
                value |-> <<"HyperPod">>] >>
    IN  [k \in 1..(3 * Len(yielded)) |-> three(yielded[((k - 1) \div 3) + 1])[((k - 1) % 3) + 1]]

LabelKeys ==
    {"node.kubernetes.io/instance-type", "sagemaker.aws.dev/cluster",
     "sagemaker.aws.dev/launch-type"}

\* kubectl label node <node> <key>=<value>, as lines 315-317 run it: without
\* --overwrite kubectl refuses to change a value the node already has
kubectl_label(ls, cmd) ==
    IF cmd.node \notin DOMAIN ls
    THEN [returncode |-> 1, labels |-> ls, why |-> "not found"]
    ELSE IF ls[cmd.node][cmd.key] \notin {None, Some(cmd.value)}
    THEN [returncode |-> 1, labels |-> ls, why |-> "already has a value"]
    ELSE [returncode |-> 0,
          labels |-> [ls EXCEPT ![cmd.node][cmd.key] = Some(cmd.value)],
          why |-> "none"]

\* add_labels_to_nodes, lines 315-317: the next kubectl command of the call;
\* run_subprocess_wrap raises on a non-zero exit code and the call ends there
kubectl_label_node ==
    /\ call = "add_labels_to_nodes"
    /\ calls < MaxCalls
    /\ lfail = "none"
    /\ lpos < Len(label_commands(config))
    /\ LET r == kubectl_label(labels, label_commands(config)[lpos + 1])
       IN  \E reached \in BOOLEAN :
              IF ~reached
              THEN /\ lfail' = "unable to connect to the server"
                   /\ UNCHANGED <<labels, lpos>>
              ELSE IF r.returncode # 0
              THEN /\ lfail' = r.why
                   /\ UNCHANGED <<labels, lpos>>
              ELSE /\ labels' = r.labels
                   /\ lpos' = lpos + 1
                   /\ UNCHANGED lfail
    /\ config' = iter_instances_stored(config)
    /\ UNCHANGED <<bootRest, topoVars, waitVars, call, calls, listed, listedAgain, labeled>>

\* add_labels_to_nodes, line 308: the for loop is used up, the call returns
add_labels_to_nodes_returns ==
    /\ call = "add_labels_to_nodes"
    /\ calls < MaxCalls
    /\ lfail = "none"
    /\ lpos = Len(label_commands(config))
    /\ calls' = calls + 1
    /\ lpos' = 0
    /\ labeled' = IF calls = 0 THEN Some(labels) ELSE labeled
    /\ UNCHANGED <<bootVars, topoVars, waitVars, call, listed, listedAgain, labels, lfail>>

\* --------------------------------------------- lifecycle_script.py waiters
\* the file does not exist: None; it exists with content c: Some(c)
Absent == None
\* wait_for_slurm_conf: sleep = 5, timeout = 60
conf_sleep == 5
conf_timeout == 60
\* wait_for_scontrol: timeout = 120, sleep = 5
scontrol_timeout == 120
scontrol_sleep == 5

\* a test that every file passes
IsSubstr_any(a, b) == TRUE

\* Python's `a in b` on strings
IsSubstr(a, b) ==
    \E i \in 0..(Len(b) - Len(a)) : SubSeq(b, i + 1, i + Len(a)) = a

Return(v) ==
    /\ wpc' = "returned"
    /\ wresult' = Some(v)
    /\ UNCHANGED werr

WRaise(e) ==
    /\ wpc' = "raised"
    /\ werr' = e
    /\ UNCHANGED wresult

\* the loop that waits for the file to appear: an absent file is "not yet"
conf_exists_waits_for_file ==
    /\ waiter = "wait_for_slurm_conf"
    /\ wpc = "loop"
    /\ IF wi >= conf_timeout \div conf_sleep
       THEN Return(FALSE)
       ELSE IF slurm_conf = Absent
       THEN wpc' = "sleep" /\ UNCHANGED <<wresult, werr>>
       ELSE wpc' = "open" /\ UNCHANGED <<wresult, werr>>
    /\ UNCHANGED <<bootVars, topoVars, callVars, waiter, controllers, slurm_conf, wi, wnow>>

\* wait_for_slurm_conf, lines 88-91: the next turn of the for loop and its
\* os.path.exists test; line 100 when the range is used up
conf_exists ==
    /\ waiter = "wait_for_slurm_conf"
    /\ wpc = "loop"
    /\ IF wi >= conf_timeout \div conf_sleep
       THEN Return(FALSE)
       ELSE IF slurm_conf = Absent
       THEN Return(TRUE)
       ELSE wpc' = "open" /\ UNCHANGED <<wresult, werr>>
    /\ UNCHANGED <<bootVars, topoVars, callVars, waiter, controllers, slurm_conf, wi, wnow>>

\* lines 92-98: open and read the file (d seconds), look for a controller
conf_read ==
    /\ waiter = "wait_for_slurm_conf"
    /\ wpc = "open"
    /\ IF slurm_conf = Absent
       THEN WRaise("FileNotFoundError") /\ UNCHANGED wnow
       ELSE \E d \in 0..MaxAttemptTime :
            /\ wnow' = wnow + d
            /\ IF \E k \in 1..Len(controllers) : IsSubstr(controllers[k], slurm_conf[1])
               THEN Return(TRUE)
               ELSE wpc' = "sleep" /\ UNCHANGED <<wresult, werr>>
    /\ UNCHANGED <<bootVars, topoVars, callVars, waiter, controllers, slurm_conf, wi>>

\* line 99: time.sleep(sleep)
conf_sleeps ==
    /\ waiter = "wait_for_slurm_conf"
    /\ wpc = "sleep"
    /\ wnow' = wnow + conf_sleep
    /\ wi' = wi + 1
    /\ wpc' = "loop"
    /\ UNCHANGED <<bootVars, topoVars, callVars, waiter, controllers, slurm_conf, wresult, werr>>

\* the SageMaker agent (or anyone) creates, rewrites or deletes SLURM_CONF
\* while the waiter runs
FileContents == {<<>>} \cup {<<"h","=">> \o a : a \in Addresses \cup {StrangerAddress}}
FileStates == {Absent} \cup {Some(c) : c \in FileContents}
agent_writes ==
    /\ waiter = "wait_for_slurm_conf"
    /\ wpc \in {"loop", "open", "sleep"}
    /\ slurm_conf' \in FileStates \ {slurm_conf}
    /\ UNCHANGED <<bootVars, topoVars, callVars, waiter, controllers, wpc, wi, wnow, wresult, werr>>

\* wait_for_scontrol, lines 111-118 and 123-124: the next turn of the for
\* loop; subprocess.check_output runs scontrol (d seconds), which prints a
\* node listing, prints nothing, exits non-zero, or cannot be started
scontrol_poll ==
    /\ waiter = "wait_for_scontrol"
    /\ wpc = "loop"
    /\ IF wi >= scontrol_timeout \div scontrol_sleep
       THEN Return(FALSE) /\ UNCHANGED wnow
       ELSE \E d \in 0..MaxAttemptTime, outcome \in {"output", "blank", "nonzero", "missing"} :
            /\ wnow' = wnow + d
            /\ CASE outcome = "output" -> Return(TRUE)
                 [] outcome = "missing" -> WRaise("FileNotFoundError")
                 [] OTHER -> wpc' = "sleep" /\ UNCHANGED <<wresult, werr>>
    /\ UNCHANGED <<bootVars, topoVars, callVars, waiter, controllers, slurm_conf, wi>>

\* lines 120-121
scontrol_sleeps ==
    /\ waiter = "wait_for_scontrol"
    /\ wpc = "sleep"
    /\ wnow' = wnow + scontrol_sleep
    /\ wi' = wi + 1
    /\ wpc' = "loop"
    /\ UNCHANGED <<bootVars, topoVars, callVars, waiter, controllers, slurm_conf, wresult, werr>>

\* --------------------------------------------------------- specifications
SampleClusterConfig ==
    [ClusterArn |-> MkArn(<<"u","s","-","1">>, <<"8","4">>, <<"k","b","8">>),
     ClusterName |-> <<"K","8">>]

IdleBoot ==
    /\ rc_instance = None
    /\ pc = "main"
    /\ err = "none"
    /\ errmsg = <<>>
    /\ printed = {}
    /\ steps = <<>>
    /\ group = None
    /\ instance = None
    /\ now = 0
    /\ t0 = 0
    /\ pubTime = Never
    /\ secret \in {c \in Credentials : c.token = "tokenA"}
    /\ join_info = None
    /\ notFound = 0
    /\ sleeps = 0
    /\ storeErrors = 0
    /\ joins = 0
    /\ joinCmd = <<>>
    /\ joinRc = None

IdleTopo ==
    /\ other = [ClusterConfig |-> SampleClusterConfig, InstanceGroups |-> SampleGroups]
    /\ secretName = None
    /\ otherName = None

IdleCall ==
    /\ call = "none"
    /\ calls = 0
    /\ listed = <<>>
    /\ listedAgain = <<>>
    /\ labels = <<>>
    /\ labeled = None
    /\ lpos = 0
    /\ lfail = "none"

IdleWait ==
    /\ waiter = "none"
    /\ controllers = <<>>
    /\ slurm_conf = Absent
    /\ wpc = "idle"
    /\ wi = 0
    /\ wnow = 0
    /\ wresult = None
    /\ werr = "none"

vars == <<bootVars, topoVars, waitVars, callVars>>

\* the bootstrap of one node: lifecycle_script.main, then configure_k8s
Init == InitBoot /\ IdleTopo /\ IdleWait /\ IdleCall
Next ==
    \/ main
    \/ apply_hotfix
    \/ install_docker
    \/ install_python_packages
    \/ configure_bridged_traffic
    \/ configure_cri_containerd
    \/ install_kubernetes
    \/ init_worker_node
    \/ Poll
    \/ Sleep
    \/ kubeadm_join
    \/ configure_k8s_end
    \/ main_end
Spec == Init /\ [][Next]_vars

\* the functions of the topology document, on bounded documents: the lookup
\* of main over every list of groups, the secret names of two clusters, and
\* one function of the document called MaxCalls times in succession
InitTopology ==
    /\ \/ /\ config \in [ClusterConfig : {SampleClusterConfig},
                         InstanceGroups : InstanceGroupLists]
          /\ other = [ClusterConfig |-> SampleClusterConfig, InstanceGroups |-> SampleGroups]
          /\ self_ip \in Addresses \cup {StrangerAddress}
          /\ call = "none"
          /\ labels = <<>>
       \/ /\ config \in [ClusterConfig : ClusterConfigs, InstanceGroups : {SampleGroups}]
          /\ other \in [ClusterConfig : ClusterConfigs, InstanceGroups : {SampleGroups}]
          /\ self_ip \in Addresses \cup {StrangerAddress}
          /\ call = "none"
          /\ labels = <<>>
       \/ /\ config \in [ClusterConfig : {SampleClusterConfig},
                         InstanceGroups : WideGroupLists]
          /\ other = [ClusterConfig |-> SampleClusterConfig, InstanceGroups |-> SampleGroups]
          /\ self_ip = StrangerAddress
          /\ call \in {"iter_instances", "get_list_of_addresses", "get_region",
                      "add_labels_to_nodes"}
          /\ labels \in IF call = "add_labels_to_nodes"
                        THEN [{inst.Name : inst \in Range(iter_instances(config))} -> NodeLabels]
                        ELSE {<<>>}
    /\ calls = 0
    /\ listed = <<>>
    /\ listedAgain = <<>>
    /\ labeled = None
    /\ lpos = 0
    /\ lfail = "none"
    /\ IdleBoot
    /\ secretName = None
    /\ otherName = None
    /\ IdleWait
NextTopology ==
    \/ main
    \/ get_secret_names
    \/ call_iter_instances
    \/ call_get_list_of_addresses
    \/ call_get_region
    \/ kubectl_label_node
    \/ add_labels_to_nodes_returns
SpecTopology == InitTopology /\ [][NextTopology]_vars

\* one call of a readiness waiter, the file and the command changing under it
InitWaiters ==
    /\ config = [ClusterConfig |-> SampleClusterConfig, InstanceGroups |-> SampleGroups]
    /\ self_ip = StrangerAddress
    /\ IdleBoot
    /\ IdleTopo
    /\ IdleCall
    /\ \/ /\ waiter = "wait_for_slurm_conf"
          /\ controllers \in SeqsUpTo(Addresses, MaxControllers)
          /\ slurm_conf \in FileStates
       \/ /\ waiter = "wait_for_scontrol"
          /\ controllers = <<>>
          /\ slurm_conf = Absent
    /\ wpc = "loop"
    /\ wi = 0
    /\ wnow = 0
    /\ wresult = None
    /\ werr = "none"
NextWaiters ==
    \/ conf_exists
    \/ conf_read
    \/ conf_sleeps
    \/ agent_writes
    \/ scontrol_poll
    \/ scontrol_sleeps
SpecWaiters == InitWaiters /\ [][NextWaiters]_vars

\* ------------------------------------------------------------- properties
Elapsed == now - t0
\* the rendezvous of a node that found itself in a well-formed document
AfterJoinStep == pc \in {"configure_k8s_end", "main_end", "done"}

\* C1 as stated: when the key is never published (every read answers "not
\* found"), init_worker_node ends with TimeoutError, raised once 300 s have
\* elapsed since t0 and no later than one 10 s poll interval after that; it
\* never reaches the join command.
C1_TimeoutWithinOnePoll ==
    pubTime = Never =>
        /\ join_info = None /\ joins = 0 /\ pc # "join" /\ ~AfterJoinStep
        /\ (pc = "failed" /\ notFound > 0 /\ storeErrors = 0 => err = "TimeoutError")
        /\ (err = "TimeoutError" =>
               /\ Elapsed >= join_info_timeout
               /\ Elapsed <= join_info_timeout + join_info_sleep)

\* C1 amended: when the key is never published, init_worker_node ends with
\* TimeoutError, raised once 300 s have elapsed since t0 and less than one
\* 10 s poll interval plus the duration of one store read after that; the
\* loop is never at a sleep once 300 s have elapsed, starts no read once
\* 310 s have elapsed, and never reaches the join command.
C1_TimeoutWithinOnePollAndRead ==
    pubTime = Never =>
        /\ join_info = None /\ joins = 0 /\ pc # "join" /\ ~AfterJoinStep
        /\ (pc = "failed" /\ notFound > 0 /\ storeErrors = 0 => err = "TimeoutError")
        /\ (err = "TimeoutError" =>
               /\ Elapsed >= join_info_timeout
               /\ Elapsed < join_info_timeout + join_info_sleep + MaxReadTime)
        /\ (pc = "sleep" => Elapsed < join_info_timeout)
        /\ (pc = "poll" => Elapsed < join_info_timeout + join_info_sleep)

\* C1 witness: the key is never published and the loop has timed out, more
\* than 310 s after t0
C1_Witness ==
    /\ pubTime = Never
    /\ err = "TimeoutError"
    /\ Elapsed > join_info_timeout + join_info_sleep
    /\ notFound > 1

\* C2 as stated: for every t < 300, a credential published t seconds after
\* t0 ends the loop successfully (never with TimeoutError) with exactly that
\* credential.
C2_PublishedBeforeTimeout ==
    (pubTime # Never /\ pubTime < join_info_timeout) =>
        /\ err # "TimeoutError"
        /\ (join_info # None => join_info = Some(secret))

\* C2 amended: for every t with t + (the longest duration of a store read)
\* <= 300, a credential published t seconds after t0 ends the loop
\* successfully, never with TimeoutError, with exactly the credential
\* published; every earlier poll answered "not found" and was followed by one
\* 10 s sleep, so that with n such polls the elapsed time is 10 n plus the
\* durations of the n + 1 reads (three "not found": 30 s plus four reads), and
\* the n-th of them was made before the publication.
C2_PublishedLate ==
    /\ (pubTime # Never /\ pubTime + MaxReadTime <= join_info_timeout) =>
           err # "TimeoutError"
    /\ (join_info # None =>
           /\ pubTime # Never
           /\ join_info = Some(secret)
           /\ pubTime <= Elapsed
           /\ sleeps = notFound
           /\ Elapsed >= join_info_sleep * notFound
           /\ Elapsed <= join_info_sleep * notFound + MaxReadTime * (notFound + 1)
           /\ (notFound > 0 => pubTime > join_info_sleep * (notFound - 1)))
    /\ (pc = "poll" => sleeps = notFound /\ Elapsed >= join_info_sleep * notFound)

\* C2 witness: published between the third and the fourth poll; three "not
\* found", the fourth read returns the credential, 30-40 s after t0
C2_Witness ==
    /\ pc = "join"
    /\ pubTime = 35
    /\ notFound = 3
    /\ join_info = Some(secret)
    /\ Elapsed >= 30 /\ Elapsed <= 40

\* C3: a read that fails with an error other than "not found" ends
\* init_worker_node at that poll with that error: no sleep follows it (every
\* sleep made followed a "not found"), no further read, no join command, and
\* the timeout is not waited out.
C3_StoreErrorIsFatal ==
    storeErrors > 0 =>
        /\ storeErrors = 1
        /\ pc = "failed"
        /\ err = "ClientError"
        /\ join_info = None
        /\ joins = 0
        /\ sleeps = notFound
        /\ Elapsed <= (join_info_sleep + MaxReadTime) * notFound + MaxReadTime

\* C3 witness: the third read fails, within 30 s, long before the timeout
C3_Witness ==
    /\ storeErrors = 1
    /\ err = "ClientError"
    /\ notFound = 2
    /\ Elapsed < 30

\* C4 as stated: every run in which the join handshake succeeds executes a
\* readiness wait and then the label application before it reports that it
\* finished.
C4_LinearPipeline ==
    pc \in {"main_end", "done"} =>
        \E i, j \in 1..Len(steps) :
            /\ i < j
            /\ steps[i] \in {"wait_for_slurm_conf", "wait_for_scontrol"}
            /\ steps[j] = "add_labels_to_nodes"

\* C5: in one run the join command is invoked at most once, with the
\* credential a successful read returned (the one published), and a non-zero
\* exit code of it ends the run with an error: nothing follows it.
C5_JoinOneShot ==
    /\ joins <= 1
    /\ (joins = 0 => joinRc = None /\ ~AfterJoinStep)
    /\ (joins = 1 =>
           /\ join_info = Some(secret)
           /\ pubTime # Never /\ pubTime <= Elapsed
           /\ joinCmd = sudo_command \o
                  <<"kubeadm", "join", secret.master_addr_port, "--token", secret.token,
                    "--discovery-token-ca-cert-hash", "sha256:",
                    secret.discovery_token_ca_cert_hash>>
           /\ joinRc # None
           /\ (joinRc # Some(0) => pc = "failed" /\ err = "ChildProcessError")
           /\ (joinRc = Some(0) => AfterJoinStep /\ err = "none"))

\* C5 witness: the join command ran once and exited non-zero
C5_Witness ==
    /\ joins = 1
    /\ joinRc = Some(1)
    /\ pc = "failed"

\* C6 as stated: no printed line and no exception message holds the token or
\* the CA certificate hash of the credential, in any run.
C6_CredentialSecrecy ==
    \A line \in printed \cup {errmsg} :
        /\ secret.token \notin Range(line)
        /\ secret.discovery_token_ca_cert_hash \notin Range(line)

\* C7 as stated: two documents with different cluster identities (well-formed
\* ARNs with different cluster ids) get different secret names.
C7_SecretNameIsolation ==
    (/\ secretName # None
     /\ arn_ok(config) /\ arn_ok(other)
     /\ get_cluster_id(config) # get_cluster_id(other)) =>
        secretName # otherName

\* C8 as stated: whatever happens to the file and to the command, each waiter
\* ends by returning a boolean; no exception leaves it.
C8_WaitersNeverThrow ==
    /\ werr = "none"
    /\ wpc # "raised"
    /\ (wpc = "returned" => wresult \in {Some(TRUE), Some(FALSE)})

WaiterTimeout == IF waiter = "wait_for_scontrol" THEN scontrol_timeout ELSE conf_timeout
WaiterSleep == IF waiter = "wait_for_scontrol" THEN scontrol_sleep ELSE conf_sleep

\* C9 as stated: the time a waiter spends, measured from its start, exceeds
\* its timeout (60 s, 120 s) by no more than one attempt plus one sleep
\* interval, also when the attempts are slow.
C9_WallClockBound ==
    wpc = "returned" => wnow <= WaiterTimeout + MaxAttemptTime + WaiterSleep

\* the places <<group, member>> of a document, and those holding an address
Places(d) ==
    UNION {{<<g, i>> : i \in 1..Len(d.InstanceGroups[g].Instances)} :
           g \in 1..Len(d.InstanceGroups)}
AddressAt(d, p) == d.InstanceGroups[p[1]].Instances[p[2]].CustomerIpAddress
\* a valid document: no address occurs at two places
ValidTopology(d) ==
    \A p, q \in Places(d) : AddressAt(d, p) = AddressAt(d, q) => p = q

\* C10: for every valid document and every local address, once main has
\* looked the address up: if a member has the address, the lookup returned
\* that member (the only one) and the group that holds it, and main goes on;
\* if none has, the lookup returned (None, None) and main raised ValueError.
C10_ResolveSelf ==
    (pc # "main" /\ ValidTopology(config)) =>
        LET at == {p \in Places(config) : AddressAt(config, p) = self_ip}
        IN  IF at = {}
            THEN /\ group = None /\ instance = None
                 /\ pc = "failed" /\ err = "ValueError"
            ELSE /\ pc # "failed" /\ err = "none"
                 /\ \E p \in at :
                       /\ at = {p}
                       /\ group = Some(config.InstanceGroups[p[1]])
                       /\ instance = Some(config.InstanceGroups[p[1]].Instances[p[2]])
                 /\ \E i \in 1..Len(group[1].Instances) : group[1].Instances[i] = instance[1]
                 /\ instance[1].CustomerIpAddress = self_ip

\* C10 witness: the local address is that of a member of the second group of
\* a valid document whose first group has a member too
C10_Witness ==
    /\ pc = "apply_hotfix"
    /\ ValidTopology(config)
    /\ Len(config.InstanceGroups) = 2
    /\ Len(config.InstanceGroups[1].Instances) > 0
    /\ group = Some(config.InstanceGroups[2])
    /\ instance # None

\* C10 witness of the other case is the state main leaves when no member has
\* the address: pc = "failed" with ValueError (reached from every document
\* with self_ip = StrangerAddress)

\* C11: the labeling step is idempotent. Running add_labels_to_nodes twice in
\* succession on the same document succeeds both times whenever the API
\* server is reached, and leaves the nodes' labels as they were after the first
\* run; each label command acts as a replace-by-key set of its label, so none
\* is refused because of a value the node already carries.
C11_LabelsIdempotent ==
    call = "add_labels_to_nodes" =>
        /\ lfail # "already has a value"
        /\ (calls >= 2 => labels = labeled[1])

\* C12: the name of a yielded member is a function of its address alone, the
\* characters of the address after the prefix "ip-" with every "." replaced
\* by "-"; a second derivation gives the same name; and members of distinct
\* addresses, as all members of a valid document are, get distinct names.
C12_NameFromAddress ==
    (call = "iter_instances" /\ calls >= 1) =>
        /\ Len(listed) = Cardinality(Places(config))
        /\ \A i \in 1..Len(listed) :
              LET a == listed[i].CustomerIpAddress
                  n == listed[i].Name
              IN  /\ Len(n) = 3 + Len(a)
                  /\ SubSeq(n, 1, 3) = <<"i", "p", "-">>
                  /\ \A k \in 1..Len(a) : n[3 + k] = IF a[k] = "." THEN "-" ELSE a[k]
        /\ \A i, j \in 1..Len(listed) :
              listed[i].CustomerIpAddress = listed[j].CustomerIpAddress
                  <=> listed[i].Name = listed[j].Name
        /\ (ValidTopology(config) =>
               \A i, j \in 1..Len(listed) : i # j => listed[i].Name # listed[j].Name)
        /\ (calls >= 2 =>
               /\ Len(listedAgain) = Len(listed)
               /\ \A i \in 1..Len(listed) : listedAgain[i].Name = listed[i].Name)

\* C12 witness: two derivations over a valid document whose two members have
\* the same digits around a separator that stands in different places
C12_Witness ==
    /\ call = "iter_instances"
    /\ calls >= 2
    /\ ValidTopology(config)
    /\ Len(listed) = 2
    /\ listed[1].CustomerIpAddress = <<"2",".","1","1">>
    /\ listed[2].CustomerIpAddress = <<"2","1",".","1">>
    /\ listed[1].Name = <<"i","p","-","2","-","1","1">>
    /\ listed[2].Name = <<"i","p","-","2","1","-","1">>

\* C13: a poll of wait_for_slurm_conf (the os.path.exists test of a turn of
\* the loop) that finds the file absent returns True at that poll, without a
\* sleep and without reading anything, whatever the controllers are; so a
\* call that starts with the file absent returns True at once, after 0 sleeps.
C13_AbsentIsReady ==
    [][(/\ waiter = "wait_for_slurm_conf"
        /\ wpc = "loop"
        /\ wpc' # wpc
        /\ wi < conf_timeout \div conf_sleep
        /\ slurm_conf = Absent)
       => (/\ wpc' = "returned"
           /\ wresult' = Some(TRUE)
           /\ wi' = wi
           /\ wnow' = wnow)]_vars

\* C13 witness: the file is absent when the call starts, the controllers are
\* not empty, and the call has returned True at second 0 after no sleep
C13_Witness ==
    /\ waiter = "wait_for_slurm_conf"
    /\ controllers # <<>>
    /\ slurm_conf = Absent
    /\ wpc = "returned"
    /\ wresult = Some(TRUE)
    /\ wi = 0
    /\ wnow = 0

\* the steps of main and of configure_k8s, in program order
ProgramOrder ==
    <<"find_instance_by_address", "./apply_hotfix.sh", "./utils/install_docker.sh",
      "install_python_packages", "configure_bridged_traffic", "configure_cri_containerd",
      "install_kubernetes", "init_worker_node", "kubeadm join">>

\* C14: the steps run in program order, each at most once, and nothing runs
\* after a step failed. When the local address is that of no member, main
\* ends with ValueError after the lookup: no script, no install step, no read
\* of the store and no join command. When the rendezvous ends in a failure
\* (timeout, error of the store, or any other), the join command is not run.
C14_FailFast ==
    /\ [](/\ Len(steps) <= Len(ProgramOrder)
          /\ steps = SubSeq(ProgramOrder, 1, Len(steps))
          /\ (pc = "failed" <=> err # "none")
          /\ ((pc # "main" /\ instance = None) =>
                 /\ pc = "failed" /\ err = "ValueError"
                 /\ steps = <<"find_instance_by_address">>
                 /\ rc_instance = None
                 /\ notFound = 0 /\ storeErrors = 0 /\ sleeps = 0
                 /\ join_info = None /\ joins = 0)
          /\ ((pc = "failed" /\ steps # <<>> /\ steps[Len(steps)] = "init_worker_node") =>
                 /\ joins = 0 /\ joinCmd = <<>> /\ joinRc = None)
          /\ (err \in {"TimeoutError", "ClientError", "AssertionError"} =>
                 /\ steps # <<>> /\ steps[Len(steps)] = "init_worker_node"
                 /\ joins = 0))
    /\ [][pc # "failed" /\ Len(steps') >= Len(steps)]_vars

\* C14 witness: the local address is that of no member and main has ended
\* with ValueError right after the lookup
C14_Witness ==
    /\ self_ip = StrangerAddress
    /\ pc = "failed"
    /\ err = "ValueError"
    /\ steps = <<"find_instance_by_address">>

\* the text holds the address: some stretch of it is the address
Holds(text, address) ==
    \E i, j \in 1..Len(text) : SubSeq(text, i, j) = address
\* the file as it is holds one of the controllers
HoldsController ==
    /\ slurm_conf # Absent
    /\ \E k \in 1..Len(controllers) : Holds(slurm_conf[1], controllers[k])

C16_ScontrolReady ==
    waiter = "wait_for_scontrol" =>
        /\ wpc \in {"loop", "sleep", "returned"}
        /\ werr = "none"
        /\ wi <= scontrol_timeout \div scontrol_sleep
        /\ (wpc = "returned" => wresult \in {Some(TRUE), Some(FALSE)})
        /\ (wresult = Some(FALSE) =>
               /\ wi = scontrol_timeout \div scontrol_sleep
               /\ wnow >= scontrol_timeout)

\* every ARN built from a region, an account and an id gives them back
WellFormedArnsDecompose ==
    \A r \in Regions, a \in Accounts, i \in ClusterIds :
        LET d == [ClusterConfig |-> [ClusterArn |-> MkArn(r, a, i),
                                     ClusterName |-> <<"K","8">>]]
        IN  arn_ok(d) /\ get_region(d) = r /\ get_cluster_id(d) = i

C18_LastPollAccepted ==
    /\ (err = "TimeoutError" =>
           /\ notFound >= 1
           /\ storeErrors = 0
           /\ join_info = None /\ joins = 0
           /\ (pubTime = Never \/ pubTime > Elapsed - MaxReadTime))
    /\ (pc = "sleep" =>
           /\ notFound >= 1
           /\ join_info = None
           /\ (pubTime = Never \/ pubTime > Elapsed - MaxReadTime))
    /\ (notFound = 0 => err # "TimeoutError" /\ sleeps = 0)
    /\ (join_info # None =>
           /\ join_info = Some(secret)
           /\ err \notin {"TimeoutError", "ClientError"}
           /\ \/ pc = "join" /\ joins = 0
              \/ /\ joins = 1
                 /\ joinCmd = kubeadm_join_cmd(secret)
                 /\ \/ AfterJoinStep
                    \/ pc = "failed" /\ err = "ChildProcessError")

\* C18 witness: the credential is returned by a read that ends 300 s or more
\* after t0, and the join command has run with it
C18_Witness ==
    /\ join_info = Some(secret)
    /\ Elapsed >= join_info_timeout
    /\ notFound >= 1
    /\ joins = 1
    /\ pc = "configure_k8s_end"

====
